---- MODULE Spec2Model ----
(***************************************************************************)
(* Model of the incremental enrichment pipeline of                         *)
(* db.trakt.extended-anitrakt (package internal): ProcessShows and         *)
(* ProcessMovies, the fetchers they call, the override engine, the         *)
(* not-found ledger and the persisted output.                              *)
(*                                                                         *)
(* One behaviour is a series of program runs for one media type ("tv" or   *)
(* "movies"), each run being main() with -tv or -movies: load the files,   *)
(* process the input records one by one, persist, clean the volatile       *)
(* caches.  The input file is the same in every run; the flags, the        *)
(* override file and (when env is "free") the upstream answers may differ  *)
(* from run to run.                                                        *)
(***************************************************************************)
EXTENDS Integers, Sequences, FiniteSets, TLC

(***************************************************************************)
(* Bounds of the model.                                                    *)
(***************************************************************************)
MaxInput == 2        \* longest input list
MaxRuns == 2         \* number of program runs in one behaviour

Keys == {1, 2}       \* source keys (MAL IDs)
TraktIds == {7, 404} \* target IDs (Trakt IDs) written in the input
TmdbIds == {5}       \* TMDB IDs known to upstream or to an override
SeasonNums == {1}    \* season numbers asked for by the input

Nil == 0             \* a nil pointer / JSON null / absent value

(***************************************************************************)
(* Text of Go error values.  A text is a sequence of tokens: a decimal     *)
(* digit, or a literal fragment that holds no digit.                       *)
(***************************************************************************)
Lit(s) == [d |-> -1, lit |-> s]
Dig(n) == [d |-> n, lit |-> ""]

RECURSIVE Digits(_)
Digits(n) == IF n < 10 THEN <<Dig(n)>> ELSE Digits(n \div 10) \o <<Dig(n % 10)>>

NoErr == <<>>

Contains404(txt) ==
    \E i \in 1..(Len(txt) - 2) : txt[i].d = 4 /\ txt[i + 1].d = 0 /\ txt[i + 2].d = 4

(***************************************************************************)
(* Upstream responses.  code = 0 stands for a transport failure (no        *)
(* response); good tells whether a 200 body parses; tmdb and nums are the  *)
(* payload of a 200 body (ids.tmdb of a show or movie, the season numbers  *)
(* of a season list).                                                      *)
(***************************************************************************)
Resp(c, g, t, n) == [code |-> c, good |-> g, tmdb |-> t, nums |-> n, renamed |-> FALSE]
\* a 200 body whose ids.slug is not the one upstream gave before
Renamed(r) == [r EXCEPT !.renamed = TRUE]

ShowResponses ==
    {Resp(200, TRUE, Nil, {}), Resp(200, FALSE, Nil, {}), Resp(404, FALSE, Nil, {}),
     Resp(500, FALSE, Nil, {}), Resp(429, FALSE, Nil, {}), Resp(0, FALSE, Nil, {}),
     Renamed(Resp(200, TRUE, Nil, {}))}

MovieResponses == ShowResponses \cup {Resp(200, TRUE, 5, {})}

SeasonResponses ==
    {Resp(200, TRUE, Nil, {1}), Resp(200, TRUE, Nil, {2}), Resp(500, FALSE, Nil, {})}

NoResp == Resp(-1, FALSE, Nil, {})   \* no response; also: not asked yet

\* What the Letterboxd site does for a TMDB ID: the redirect and the JSON
\* detail both succeed ("found"); the first request fails in transport or is
\* rate limited to the end, its answer is no redirect, or its Location is not
\* /film/<slug>/; the detail request is not answered 200 ("jsonfail"), or
\* its body does not parse.
LbxResponses == {"found", "transport", "noredirect", "badshape", "jsonfail", "badjson"}
LbxUnknown == "unknown"

Endpoints == {"show", "movie", "season"} \X TraktIds

(***************************************************************************)
(* RetryWithBackoff, by its result for an endpoint that keeps answering r: *)
(* the response and the error it returns once retries are over.            *)
(***************************************************************************)
RetryWithBackoff(r, url) ==
    IF r.code = 0
    THEN [resp |-> NoResp,
          err |-> <<Lit("Get \"")>> \o url \o <<Lit("\": dial tcp: i/o timeout")>>]
    ELSE IF r.code \in {429, 403}
    THEN [resp |-> r,
          err |-> <<Lit("rate limited or blocked (")>> \o Digits(r.code) \o <<Lit(")")>>]
    ELSE [resp |-> r, err |-> NoErr]

(***************************************************************************)
(* Output records.  One shape serves OutputShow and OutputMovie: season    *)
(* and split are the show's season block and is_split_cour, lb is the      *)
(* movie's externals.letterboxd.                                           *)
(***************************************************************************)
Rec(k, i, s, ssn, sp, t, l) ==
    [mal |-> k, id |-> i, slug |-> s, season |-> ssn, split |-> sp, tmdb |-> t, lb |-> l]

NoRec == Rec(Nil, Nil, Nil, Nil, FALSE, Nil, Nil)

Slug(t) == t + 1000   \* the slug upstream gives to the entity with ID t
NewSlug(t) == t + 2000 \* its slug once upstream has renamed the entity
SlugOf(r, t) == IF r.renamed THEN NewSlug(t) ELSE Slug(t)

(***************************************************************************)
(* Fetched entities and the response cache.                                *)
(***************************************************************************)
Ent(i, s, t) == [id |-> i, slug |-> s, tmdb |-> t]
NoEnt == Ent(Nil, Nil, Nil)

SeasonList(ns) == [has |-> TRUE, nums |-> ns]
NoList == [has |-> FALSE, nums |-> {}]

ShowUrl(showID) == <<Lit("https://api.trakt.tv/shows/")>> \o Digits(showID)
MovieUrl(movieID) == <<Lit("https://api.trakt.tv/movies/")>> \o Digits(movieID)
SeasonUrl(showID) == ShowUrl(showID) \o <<Lit("/seasons")>>

\* The part of the three Trakt fetchers that follows the cache check: the
\* request through RetryWithBackoff, the status checks and the parse.
\* notFound is the text of the fetcher's 404 error.
LiveFetch(r, url, notFound) ==
    LET rr == RetryWithBackoff(r, url) IN
    IF rr.err # NoErr THEN rr.err
    ELSE IF rr.resp.code = 404 THEN <<Lit(notFound)>> \o Digits(404)
    ELSE IF rr.resp.code # 200 THEN <<Lit("API error: ")>> \o Digits(rr.resp.code)
    ELSE IF ~rr.resp.good THEN <<Lit("invalid character '<' looking for beginning of value")>>
    ELSE NoErr

FetchTraktShow(cache, frc, showID, r) ==
    IF ~frc /\ cache[showID] # NoEnt
    THEN [ent |-> cache[showID], err |-> NoErr, live |-> FALSE, cache |-> cache]
    ELSE LET e == LiveFetch(r, ShowUrl(showID), "show not found: ")
             ent == Ent(showID, SlugOf(r, showID), r.tmdb)
         IN IF e # NoErr
            THEN [ent |-> NoEnt, err |-> e, live |-> TRUE, cache |-> cache]
            ELSE [ent |-> ent, err |-> NoErr, live |-> TRUE,
                  cache |-> [cache EXCEPT ![showID] = ent]]

FetchTraktMovie(cache, frc, movieID, r) ==
    IF ~frc /\ cache[movieID] # NoEnt
    THEN [ent |-> cache[movieID], err |-> NoErr, live |-> FALSE, cache |-> cache]
    ELSE LET e == LiveFetch(r, MovieUrl(movieID), "movie not found: ")
             ent == Ent(movieID, SlugOf(r, movieID), r.tmdb)
         IN IF e # NoErr
            THEN [ent |-> NoEnt, err |-> e, live |-> TRUE, cache |-> cache]
            ELSE [ent |-> ent, err |-> NoErr, live |-> TRUE,
                  cache |-> [cache EXCEPT ![movieID] = ent]]

\* found: the requested season number is in the list (cached or fetched).
FetchTraktSeason(cache, frc, showID, seasonNum, r) ==
    IF ~frc /\ cache[showID].has /\ seasonNum \in cache[showID].nums
    THEN [found |-> TRUE, err |-> NoErr, live |-> FALSE, cache |-> cache]
    ELSE LET e == LiveFetch(r, SeasonUrl(showID), "seasons not found: ") IN
         IF e # NoErr
         THEN [found |-> FALSE, err |-> e, live |-> TRUE, cache |-> cache]
         ELSE IF seasonNum \in r.nums
         THEN [found |-> TRUE, err |-> NoErr, live |-> TRUE,
               cache |-> [cache EXCEPT ![showID] = SeasonList(r.nums)]]
         ELSE [found |-> FALSE,
               err |-> <<Lit("season ")>> \o Digits(seasonNum) \o <<Lit(" not found")>>,
               live |-> TRUE,
               cache |-> [cache EXCEPT ![showID] = SeasonList(r.nums)]]

ErrDialLetterboxd == <<Lit("dial tcp: lookup letterboxd.com: no such host")>>

\* cache is the set of TMDB IDs with a Letterboxd cache file; the Letterboxd
\* entry of a film is named by the TMDB ID it was looked up with.  reqs are
\* the steps of the lookup that sent a request.
FetchLetterboxdInfo(cache, frc, tmdbID, r) ==
    IF ~frc /\ tmdbID \in cache
    THEN [lb |-> tmdbID, err |-> NoErr, reqs |-> {}, cache |-> cache]
    ELSE IF r = "transport"
    THEN [lb |-> Nil, err |-> ErrDialLetterboxd, reqs |-> {"lbx1"}, cache |-> cache]
    ELSE IF r = "noredirect"
    THEN [lb |-> Nil, err |-> <<Lit("expected redirect, but got status")>>,
          reqs |-> {"lbx1"}, cache |-> cache]
    ELSE IF r = "badshape"
    THEN [lb |-> Nil, err |-> <<Lit("could not parse slug from redirect location")>>,
          reqs |-> {"lbx1"}, cache |-> cache]
    ELSE IF r = "jsonfail"
    THEN [lb |-> Nil, err |-> <<Lit("failed to fetch letterboxd json")>>,
          reqs |-> {"lbx1", "lbx2"}, cache |-> cache]
    ELSE IF r = "badjson"
    THEN [lb |-> Nil, err |-> <<Lit("invalid character '<' looking for beginning of value")>>,
          reqs |-> {"lbx1", "lbx2"}, cache |-> cache]
    ELSE [lb |-> tmdbID, err |-> NoErr, reqs |-> {"lbx1", "lbx2"},
          cache |-> cache \cup {tmdbID}]

(***************************************************************************)
(* Overrides.  An entry of the override file carries the ignore flag, a    *)
(* "trakt" patch (tid, tslug) and an "externals" patch (etmdb, elb); Nil   *)
(* is a field the patch leaves out.                                        *)
(***************************************************************************)
OvEntry(ig, ti, ts, et, el) ==
    [present |-> TRUE, ignore |-> ig, tid |-> ti, tslug |-> ts, etmdb |-> et, elb |-> el]
NoOv == [present |-> FALSE, ignore |-> FALSE, tid |-> Nil, tslug |-> Nil,
         etmdb |-> Nil, elb |-> Nil]

OvEntries == {OvEntry(TRUE, Nil, Nil, Nil, Nil),     \* ignore
              OvEntry(FALSE, 9, 1009, Nil, Nil),     \* "trakt": {id, slug}
              OvEntry(FALSE, Nil, Nil, 5, Nil),      \* "externals": {tmdb}
              OvEntry(FALSE, Nil, Nil, Nil, 5)}      \* "externals": {letterboxd}

NoOverrides == [k \in Keys |-> NoOv]

\* The override files of the model: no entry, or one entry, for key 1.
OverrideFiles ==
    {NoOverrides} \cup {[k \in Keys |-> IF k = 1 THEN e ELSE NoOv] : e \in OvEntries}

\* Override as decoded by encoding/json: TraktShow and TraktMovie carry the
\* same tag "trakt" at the same depth, so the decoder fills neither of them.
Override(entry) ==
    [ignore |-> entry.ignore, hasTrakt |-> FALSE, tid |-> Nil, tslug |-> Nil,
     hasExt |-> (entry.etmdb # Nil \/ entry.elb # Nil),
     etmdb |-> entry.etmdb, elb |-> entry.elb]

LoadOverrides(file) ==
    [k \in {j \in Keys : file[j].present} |-> Override(file[k])]

\* ApplyShowOverride with the slug patch appended (+=) instead of assigned.
ApplyShowOverrideAppendsSlug(show, ov) ==
    LET s1 == IF ov.hasTrakt /\ ov.tid # Nil THEN [show EXCEPT !.id = ov.tid] ELSE show
        s2 == IF ov.hasTrakt /\ ov.tslug # Nil THEN [s1 EXCEPT !.slug = @ + ov.tslug] ELSE s1
        s3 == IF ov.hasExt /\ ov.etmdb # Nil THEN [s2 EXCEPT !.tmdb = ov.etmdb] ELSE s2
    IN s3

ApplyShowOverride(show, ov) ==
    LET s1 == IF ov.hasTrakt /\ ov.tid # Nil THEN [show EXCEPT !.id = ov.tid] ELSE show
        s2 == IF ov.hasTrakt /\ ov.tslug # Nil THEN [s1 EXCEPT !.slug = ov.tslug] ELSE s1
        s3 == IF ov.hasExt /\ ov.etmdb # Nil THEN [s2 EXCEPT !.tmdb = ov.etmdb] ELSE s2
    IN s3

\* ApplyMovieOverride without the Letterboxd patch.
ApplyMovieOverrideNoLetterboxd(movie, ov) ==
    LET s1 == IF ov.hasTrakt /\ ov.tid # Nil THEN [movie EXCEPT !.id = ov.tid] ELSE movie
        s2 == IF ov.hasTrakt /\ ov.tslug # Nil THEN [s1 EXCEPT !.slug = ov.tslug] ELSE s1
        s3 == IF ov.hasExt /\ ov.etmdb # Nil THEN [s2 EXCEPT !.tmdb = ov.etmdb] ELSE s2
    IN s3

ApplyMovieOverride(movie, ov) ==
    LET s1 == IF ov.hasTrakt /\ ov.tid # Nil THEN [movie EXCEPT !.id = ov.tid] ELSE movie
        s2 == IF ov.hasTrakt /\ ov.tslug # Nil THEN [s1 EXCEPT !.slug = ov.tslug] ELSE s1
        s3 == IF ov.hasExt /\ ov.etmdb # Nil THEN [s2 EXCEPT !.tmdb = ov.etmdb] ELSE s2
        s4 == IF ov.hasExt /\ ov.elb # Nil THEN [s3 EXCEPT !.lb = ov.elb] ELSE s3
    IN s4

\* oldShow.Externals != outputShow.Externals compares two copies of one
\* pointer: ApplyShowOverride and ApplyMovieOverride write through it and
\* never replace it.
ExternalsPointerChanged(old, new) == FALSE

ModifiedByOverride(old, new) ==
    old.id # new.id \/ old.slug # new.slug \/ ExternalsPointerChanged(old, new)

(***************************************************************************)
(* Files and maps.                                                         *)
(***************************************************************************)
EmptyMap == [k \in {} |-> NoRec]

\* The loop of ProcessShows / ProcessMovies that fills resultsMap and
\* existingMap from the existing output: a later record of a key wins.
RECURSIVE MapOf(_)
MapOf(list) ==
    IF list = <<>> THEN EmptyMap
    ELSE LET last == list[Len(list)] IN
         (last.mal :> last) @@ MapOf(SubSeq(list, 1, Len(list) - 1))

KeysOf(list) == {list[i].mal : i \in 1..Len(list)}

\* The ledger file is a list of NotFoundEntry, named here by their MalID.
LoadNotFound(ledger) == {ledger[i] : i \in 1..Len(ledger)}

\* SaveNotFound that returns without writing the new entries.
SaveNotFoundKeepsFile(ledger, newNotExist, notExist) == ledger

SaveNotFound(ledger, newNotExist, notExist) ==
    IF Len(newNotExist) > 0
    THEN ledger \o SelectSeq(newNotExist, LAMBDA k : k \notin notExist)
    ELSE ledger

\* One pass of the inner loop of the sort in SaveResults, for j = from..Len.
RECURSIVE Exchange(_, _, _)
Exchange(results, i, j) ==
    IF j > Len(results) THEN results
    ELSE IF results[i].mal > results[j].mal
    THEN Exchange([results EXCEPT ![i] = results[j], ![j] = results[i]], i, j + 1)
    ELSE Exchange(results, i, j + 1)

RECURSIVE SortFrom(_, _)
SortFrom(results, i) ==
    IF i > Len(results) THEN results
    ELSE SortFrom(Exchange(results, i, i + 1), i + 1)

\* SaveResults without the sort: the records in the order of the range loop.
SaveResultsUnsorted(resultsMap, order) ==
    [i \in 1..Len(order) |-> resultsMap[order[i]]]

\* order is the order in which the range loop walks the map.
SaveResults(resultsMap, order) ==
    SortFrom([i \in 1..Len(order) |-> resultsMap[order[i]]], 1)

SaveMovieResults(resultsMap, order) ==
    SortFrom([i \in 1..Len(order) |-> resultsMap[order[i]]], 1)

\* The orders in which a range loop may walk a map with these keys.
Orders(S) ==
    {o \in [1..Cardinality(S) -> S] : \A i, j \in 1..Cardinality(S) : i # j => o[i] # o[j]}

\* shouldSkipShow without the check of resultsMap.
shouldSkipShowLedgerOnly(show, resultsMap, notExist, frc) ==
    show.mal \in notExist

shouldSkipShow(show, resultsMap, notExist, frc) ==
    \/ show.mal \in DOMAIN resultsMap /\ ~frc
    \/ show.mal \in notExist

shouldSkipMovie(movie, resultsMap, notExist, frc) ==
    movie.mal \in notExist

Input(k, t, n) == [mal |-> k, trakt |-> t, season |-> n]

InputLists ==
    UNION {[1..n -> {Input(k, t, sn) : k \in Keys, t \in TraktIds, sn \in SeasonNums}]
           : n \in 0..MaxInput}

NoStats == [created |-> <<>>, updated |-> <<>>, modified |-> <<>>, notFound |-> <<>>]

(***************************************************************************)
(* State.                                                                  *)
(***************************************************************************)
VARIABLES
    kind,          \* "tv" or "movies": the media type of the runs
    env,           \* "free": upstream may answer anything at any request and
                   \* flags and override file change from run to run;
                   \* "steady": upstream answers each endpoint the same way
                   \* every time and every run repeats the first one
    input,         \* the input file
    outFile,       \* the persisted output file: a list of output records
    nfFile,        \* the persisted not-found ledger: a list of source keys
    lbxCache,      \* Letterboxd cache directory: the TMDB IDs with a file
    entityCache,   \* shows/ (tv) or movies/ (movies) cache directory, by Trakt ID
    seasonCache,   \* seasons/ cache directory, by show ID
    upstream,      \* steady: what a Trakt endpoint answers (NoResp: not asked yet)
    lbxUpstream,   \* steady: what Letterboxd answers for a TMDB ID
    pc,            \* "idle" between runs, "loop" in the record loop, "saved"
                   \* once ProcessShows / ProcessMovies has returned
    config,        \* [force], the flags of the run
    ovFile,        \* the override file read by the run
    idx,           \* index of the next input record
    overridesMap,  \* LoadOverrides of the override file
    existingOutput,\* the output file as loaded at the start of the run
    existingMap, resultsMap, notExistMap, newNotExist, stats,
    reqs,          \* requests sent in the run: <<service, input index>>
    primary,       \* per processed record: how its show/movie fetch ended
    lbxTried,      \* input indexes whose record had a TMDB ID and no
                   \* Letterboxd entry when updateLetterboxdInfo ran
    last,          \* the latest iteration of the record loop: what its season
                   \* lookup found, the record before and after the override
    runs,          \* number of completed runs
    ledgerHist,    \* keys that were in the ledger file when an earlier run ended
    seen404,       \* keys whose show/movie fetch got HTTP 404 in an earlier run
                   \* that ended normally
    ovIn,          \* override engine alone: the record handed to it,
    ovArg,         \* the Override handed to it,
    ovOut,         \* the record after each application so far
    retryConfig,   \* RetryWithBackoff alone: its RetryConfig argument,
    attempt, backoff, lastErr, \* its locals,
    fnCalls,       \* the number of times it has invoked fn,
    answers,       \* what fn returned, in order,
    sleeps,        \* the durations it has slept, in order,
    ret,           \* what it returned
    limiter,       \* RateLimiter alone: the limiter rl,
    waiting,       \* per caller: inside Wait, asleep between two passes,
    sleepLeft,     \* the time its time.Sleep still has to run,
    waitCalls,     \* the number of Wait calls it has made,
    taken,         \* the number of Wait calls that have returned
    mu,            \* RateLimiter step by step: the caller that holds rl.mu,
    at,            \* per caller: its position in Wait,
    clock,         \* the ticks gone by since the limiter was built
    wired,         \* the Config has its RateLimiter and LetterboxdRateLimiter
                   \* set; FALSE for the Config that main gets from ParseFlags
    acquired,      \* Wait calls that have returned in the run: <<service,
                   \* input index>> of the request they precede
    tvBatch        \* a run with -tv and -movies: what ProcessShows left

fileVars == <<outFile, nfFile, lbxCache>>
cacheVars == <<entityCache, seasonCache>>
envVars == <<upstream, lbxUpstream>>
cfgVars == <<config, ovFile>>
loopVars == <<idx, overridesMap, existingOutput, existingMap, resultsMap, notExistMap,
              newNotExist, stats, reqs, primary, lbxTried, last>>
histVars == <<ledgerHist, seen404>>
engineVars == <<ovIn, ovArg, ovOut>>
retryVars == <<retryConfig, attempt, backoff, lastErr, fnCalls, answers, sleeps, ret>>
limiterVars == <<limiter, waiting, sleepLeft, waitCalls, taken>>
mutexVars == <<mu, at, clock>>
mainVars == <<wired, acquired, tvBatch>>
vars == <<kind, env, input, fileVars, cacheVars, envVars, pc, cfgVars, loopVars, runs,
          histVars, engineVars, retryVars, limiterVars, mutexVars, mainVars>>

NoConfig == [force |-> FALSE]

\* season: "found" (in the cached or fetched list), "absent" (a list was
\* fetched and lacks the number), "error" (no list was obtained), "none" (no
\* season lookup).  fetched: the record was built from a fetched entity.
Last(sn, fe, co, dr, fi) ==
    [season |-> sn, fetched |-> fe, committed |-> co, draft |-> dr, final |-> fi]
NoLast == Last("none", FALSE, FALSE, NoRec, NoRec)

(***************************************************************************)
(* What the request function of RetryWithBackoff returns: a response (its  *)
(* status, Nil when the response is nil, and its Retry-After header) and   *)
(* an error.  Durations are whole seconds.                                 *)
(***************************************************************************)
NoHeader == -1   \* Header.Get("Retry-After") = ""
HttpDate == -2   \* a Retry-After header that holds an HTTP date
FnResult(st, ra, e) == [status |-> st, retryAfter |-> ra, err |-> e]
NoFnResult == FnResult(Nil, NoHeader, NoErr)

ErrTimeout == <<Lit("context deadline exceeded (Client.Timeout exceeded while awaiting headers)")>>
ErrDial == <<Lit("dial tcp: lookup api.trakt.tv: no such host")>>
ErrRedirect == <<Lit("stopped after "), Dig(1), Dig(0), Lit(" redirects")>>

RetryConfig(m, i, x) == [maxRetries |-> m, initialBackoff |-> i, maxBackoff |-> x]
DefaultRetryConfig == RetryConfig(3, 1, 32)

Returned(resp, err) == [done |-> TRUE, resp |-> resp, err |-> err]
NoReturn == [done |-> FALSE, resp |-> NoFnResult, err |-> NoErr]

\* RetryWithBackoff has not been called.
RetryIdle ==
    /\ retryConfig = DefaultRetryConfig
    /\ attempt = 0
    /\ backoff = DefaultRetryConfig.initialBackoff
    /\ lastErr = NoErr
    /\ fnCalls = 0
    /\ answers = <<>>
    /\ sleeps = <<>>
    /\ ret = NoReturn

(***************************************************************************)
(* The token bucket.  Time is counted in ticks of 50 ms.  The field tokens *)
(* holds the float64 token count multiplied by windowSize, so that one     *)
(* token is windowSize units and an elapsed tick adds maxRequests units;   *)
(* elapsed stands for time.Now() - lastRefill, which is all that Wait uses *)
(* of the two, and stops counting at windowSize, where the bucket is full. *)
(***************************************************************************)
Callers == {1, 2}
MinSleep == 2    \* 100 * time.Millisecond

NewRateLimiter(maxRequests, windowSize) ==
    [maxRequests |-> maxRequests, windowSize |-> windowSize,
     tokens |-> maxRequests * windowSize, elapsed |-> 0]

\* No caller has called Wait.
LimiterIdle ==
    /\ limiter = NewRateLimiter(1, 2)
    /\ waiting = [c \in Callers |-> FALSE]
    /\ sleepLeft = [c \in Callers |-> 0]
    /\ waitCalls = [c \in Callers |-> 0]
    /\ taken = 0
    /\ mu = Nil
    /\ at = [c \in Callers |-> "out"]
    /\ clock = 0

\* ProcessShows has not run in this process.
NoBatch == [done |-> FALSE, custom |-> FALSE, saved |-> <<>>, file |-> <<>>]

\* No run has started: the files and caches are empty.
Idle ==
    /\ outFile = <<>>
    /\ nfFile = <<>>
    /\ lbxCache = {}
    /\ entityCache = [t \in TraktIds |-> NoEnt]
    /\ seasonCache = [t \in TraktIds |-> NoList]
    /\ upstream = [e \in Endpoints |-> NoResp]
    /\ lbxUpstream = [t \in TmdbIds |-> LbxUnknown]
    /\ pc = "idle"
    /\ config = NoConfig
    /\ ovFile = NoOverrides
    /\ idx = 1
    /\ overridesMap = LoadOverrides(NoOverrides)
    /\ existingOutput = <<>>
    /\ existingMap = EmptyMap
    /\ resultsMap = EmptyMap
    /\ notExistMap = {}
    /\ newNotExist = <<>>
    /\ stats = NoStats
    /\ reqs = {}
    /\ primary = <<>>
    /\ lbxTried = {}
    /\ last = NoLast
    /\ runs = 0
    /\ ledgerHist = {}
    /\ seen404 = {}
    /\ acquired = {}
    /\ tvBatch = NoBatch

Init ==
    /\ kind \in {"tv", "movies"}
    /\ env \in {"free", "steady"}
    /\ input \in InputLists
    /\ Idle
    /\ wired \in BOOLEAN
    /\ ovIn = NoRec
    /\ ovArg = Override(NoOv)
    /\ ovOut = <<>>
    /\ RetryIdle
    /\ LimiterIdle

(***************************************************************************)
(* The start of ProcessShows / ProcessMovies, up to the record loop.       *)
(***************************************************************************)
StartRun(frc, ovf) ==
    /\ pc = "idle"
    /\ runs < MaxRuns
    /\ (env = "steady" /\ runs > 0) => (frc = config.force /\ ovf = ovFile)
    /\ pc' = "loop"
    /\ config' = [force |-> frc]
    /\ ovFile' = ovf
    /\ idx' = 1
    /\ overridesMap' = LoadOverrides(ovf)
    /\ existingOutput' = outFile
    /\ notExistMap' = LoadNotFound(nfFile)
    /\ resultsMap' = IF frc THEN EmptyMap ELSE MapOf(outFile)
    /\ existingMap' = IF frc THEN EmptyMap ELSE MapOf(outFile)
    /\ newNotExist' = <<>>
    /\ stats' = NoStats
    /\ reqs' = {}
    /\ primary' = <<>>
    /\ lbxTried' = {}
    /\ last' = NoLast
    /\ acquired' = {}
    /\ UNCHANGED <<kind, env, input, fileVars, cacheVars, envVars, runs, histVars,
                   engineVars, retryVars, limiterVars, mutexVars, wired, tvBatch>>

(***************************************************************************)
(* The body of the record loop.                                            *)
(***************************************************************************)
RespKind(r) ==
    IF r.code = 0 THEN "transport"
    ELSE IF r.code = 200 THEN (IF r.good THEN "ok" ELSE "malformed")
    ELSE IF r.code = 404 THEN "s404"
    ELSE IF r.code = 429 THEN "s429"
    ELSE "s500"

\* What the season lookup of getShowData obtains for a show.
SeasonOutcome(cache, frc, show, rq) ==
    LET fq == FetchTraktSeason(cache, frc, show.trakt, show.season, rq) IN
    IF fq.found THEN "found"
    ELSE IF fq.live /\ rq.code = 200 /\ rq.good THEN "absent"
    ELSE "error"

\* updateSeasonInfo that nulls the season block and leaves the flag alone.
updateSeasonInfoKeepsFlag(cache, frc, outputShow, traktID, seasonNum, rq) ==
    LET fq == FetchTraktSeason(cache, frc, traktID, seasonNum, rq) IN
    [rec |-> IF fq.err # NoErr
             THEN [outputShow EXCEPT !.season = Nil]
             ELSE [outputShow EXCEPT !.split = FALSE, !.season = seasonNum],
     live |-> fq.live, cache |-> fq.cache]

\* season is the season block (named by its number, Nil when null).
updateSeasonInfo(cache, frc, outputShow, traktID, seasonNum, rq) ==
    LET fq == FetchTraktSeason(cache, frc, traktID, seasonNum, rq) IN
    [rec |-> IF fq.err # NoErr
             THEN [outputShow EXCEPT !.split = TRUE, !.season = Nil]
             ELSE [outputShow EXCEPT !.split = FALSE, !.season = seasonNum],
     live |-> fq.live, cache |-> fq.cache]

getShowData(cache, scache, frc, show, rs, rq) ==
    LET fs == FetchTraktShow(cache, frc, show.trakt, rs) IN
    IF fs.err # NoErr
    THEN [rec |-> NoRec, err |-> fs.err, live |-> fs.live, seasonLive |-> FALSE,
          cache |-> fs.cache, scache |-> scache]
    ELSE LET draft == Rec(show.mal, fs.ent.id, fs.ent.slug, Nil, FALSE, fs.ent.tmdb, Nil)
             us == updateSeasonInfo(scache, frc, draft, show.trakt, show.season, rq)
         IN [rec |-> us.rec, err |-> NoErr, live |-> fs.live, seasonLive |-> us.live,
             cache |-> fs.cache, scache |-> us.cache]

\* getMovieData without the early return of the existing record.
getMovieDataAlwaysFetch(cache, frc, movie, results, r) ==
    LET fm == FetchTraktMovie(cache, frc, movie.trakt, r) IN
    IF fm.err # NoErr
    THEN [rec |-> NoRec, err |-> fm.err, live |-> fm.live, existing |-> FALSE,
          cache |-> fm.cache]
    ELSE [rec |-> Rec(movie.mal, fm.ent.id, fm.ent.slug, Nil, FALSE, fm.ent.tmdb, Nil),
          err |-> NoErr, live |-> fm.live, existing |-> FALSE, cache |-> fm.cache]

getMovieData(cache, frc, movie, results, r) ==
    IF movie.mal \in DOMAIN results /\ ~frc
    THEN [rec |-> results[movie.mal], err |-> NoErr, live |-> FALSE, existing |-> TRUE,
          cache |-> cache]
    ELSE LET fm == FetchTraktMovie(cache, frc, movie.trakt, r) IN
         IF fm.err # NoErr
         THEN [rec |-> NoRec, err |-> fm.err, live |-> fm.live, existing |-> FALSE,
               cache |-> fm.cache]
         ELSE [rec |-> Rec(movie.mal, fm.ent.id, fm.ent.slug, Nil, FALSE, fm.ent.tmdb, Nil),
               err |-> NoErr, live |-> fm.live, existing |-> FALSE, cache |-> fm.cache]

\* Externals is never nil in a record built by getMovieData, and the output
\* file holds only such records.  tried: the lookup was attempted.
updateLetterboxdInfo(cache, frc, outputMovie, r) ==
    IF outputMovie.lb = Nil /\ outputMovie.tmdb # Nil
    THEN LET fl == FetchLetterboxdInfo(cache, frc, outputMovie.tmdb, r) IN
         [rec |-> IF fl.err # NoErr THEN outputMovie ELSE [outputMovie EXCEPT !.lb = fl.lb],
          tried |-> TRUE, reqs |-> fl.reqs, cache |-> fl.cache]
    ELSE [rec |-> outputMovie, tried |-> FALSE, reqs |-> {}, cache |-> cache]

\* The classification of ProcessShows / ProcessMovies before the override.
Classify(st, rec) ==
    IF rec.mal \in DOMAIN existingMap
    THEN IF rec.id # resultsMap[rec.mal].id \/ rec.slug # resultsMap[rec.mal].slug
         THEN [st EXCEPT !.updated = Append(@, rec.mal)]
         ELSE st
    ELSE [st EXCEPT !.created = Append(@, rec.mal)]

\* The 404 branch of the error handling.
NotFoundStats(st, k) ==
    IF k \notin notExistMap THEN [st EXCEPT !.notFound = Append(@, k)] ELSE st

\* The 404 test, passed by every error.
IsNotFoundErrorAny(err) == TRUE

IsNotFoundError(err) == Contains404(err)

Ignored(k) == k \in DOMAIN overridesMap /\ overridesMap[k].ignore
Patched(k) == k \in DOMAIN overridesMap /\ ~overridesMap[k].ignore

\* What upstream may answer on endpoint e.
Answers(e, all) ==
    IF env = "free" \/ upstream[e] = NoResp THEN all ELSE {upstream[e]}
LbxAnswers(t) ==
    IF env = "free" \/ lbxUpstream[t] = LbxUnknown THEN LbxResponses ELSE {lbxUpstream[t]}

SkipRecord(how) ==
    /\ primary' = Append(primary, how)
    /\ idx' = idx + 1
    /\ last' = NoLast
    /\ UNCHANGED <<kind, env, input, fileVars, cacheVars, envVars, pc, cfgVars,
                   overridesMap, existingOutput, existingMap, resultsMap, notExistMap,
                   newNotExist, stats, reqs, lbxTried, runs, histVars, engineVars,
                   retryVars, limiterVars, mutexVars, mainVars>>

\* One iteration of the loop of ProcessShows.
ProcessShowRecord ==
    /\ pc = "loop" /\ kind = "tv" /\ idx <= Len(input)
    /\ LET show == input[idx]
           k == show.mal
           es == <<"show", show.trakt>>
           eq == <<"season", show.trakt>>
       IN
       IF Ignored(k) THEN SkipRecord("ignored")
       ELSE IF shouldSkipShow(show, resultsMap, notExistMap, config.force)
       THEN SkipRecord("skipped")
       ELSE
         \E rs \in Answers(es, ShowResponses), rq \in Answers(eq, SeasonResponses) :
         \E g \in {getShowData(entityCache, seasonCache, config.force, show, rs, rq)} :
         \E final \in {IF Patched(k) THEN ApplyShowOverride(g.rec, overridesMap[k])
                       ELSE g.rec} :
           LET st1 == Classify(stats, g.rec)
               st2 == IF Patched(k) /\ ModifiedByOverride(g.rec, final)
                      THEN [st1 EXCEPT !.modified = Append(@, k)] ELSE st1
           IN
           \* a response that was not asked for is not part of the step
           /\ (~g.live => rs = CHOOSE r \in Answers(es, ShowResponses) : TRUE)
           /\ (~g.seasonLive => rq = CHOOSE r \in Answers(eq, SeasonResponses) : TRUE)
           \* a live fetch starts with Wait on config.RateLimiter
           /\ (g.live \/ g.seasonLive) => wired
           /\ acquired' = acquired \cup (IF g.live THEN {<<"show", idx>>} ELSE {})
                                   \cup (IF g.seasonLive THEN {<<"season", idx>>} ELSE {})
           /\ upstream' = IF env = "free" THEN upstream
                          ELSE [upstream EXCEPT ![es] = IF g.live THEN rs ELSE @,
                                                ![eq] = IF g.seasonLive THEN rq ELSE @]
           /\ reqs' = reqs \cup (IF g.live THEN {<<"show", idx>>} ELSE {})
                           \cup (IF g.seasonLive THEN {<<"season", idx>>} ELSE {})
           /\ primary' = Append(primary, IF g.live THEN RespKind(rs) ELSE "cached")
           /\ entityCache' = g.cache
           /\ seasonCache' = g.scache
           /\ IF g.err # NoErr
              THEN /\ IF IsNotFoundError(g.err)
                      THEN /\ newNotExist' = Append(newNotExist, k)
                           /\ stats' = NotFoundStats(stats, k)
                      ELSE UNCHANGED <<newNotExist, stats>>
                   /\ UNCHANGED resultsMap
              ELSE /\ stats' = st2
                   /\ resultsMap' = (k :> final) @@ resultsMap
                   /\ UNCHANGED newNotExist
           /\ last' = IF g.err # NoErr THEN NoLast
                      ELSE Last(SeasonOutcome(seasonCache, config.force, show, rq),
                                TRUE, TRUE, g.rec, final)
           /\ idx' = idx + 1
           /\ UNCHANGED <<kind, env, input, fileVars, lbxUpstream, pc, cfgVars,
                          overridesMap, existingOutput, existingMap, notExistMap,
                          lbxTried, runs, histVars, engineVars, retryVars, limiterVars,
                          mutexVars, wired, tvBatch>>

\* One iteration of the loop of ProcessMovies.
ProcessMovieRecord ==
    /\ pc = "loop" /\ kind = "movies" /\ idx <= Len(input)
    /\ LET movie == input[idx]
           k == movie.mal
           em == <<"movie", movie.trakt>>
       IN
       IF Ignored(k) THEN SkipRecord("ignored")
       ELSE IF shouldSkipMovie(movie, resultsMap, notExistMap, config.force)
       THEN SkipRecord("skipped")
       ELSE
         \E rm \in Answers(em, MovieResponses), rl \in LbxResponses :
         \E g \in {getMovieData(entityCache, config.force, movie, resultsMap, rm)} :
         \E u \in {updateLetterboxdInfo(lbxCache, config.force, g.rec, rl)} :
         \E final \in {IF Patched(k) THEN ApplyMovieOverride(u.rec, overridesMap[k])
                       ELSE u.rec} :
           LET lbxLive == g.err = NoErr /\ u.reqs # {}
               st1 == Classify(stats, g.rec)
               st2 == IF Patched(k) /\ ModifiedByOverride(u.rec, final)
                      THEN [st1 EXCEPT !.modified = Append(@, k)] ELSE st1
           IN
           /\ (~g.live => rm = CHOOSE r \in Answers(em, MovieResponses) : TRUE)
           /\ IF lbxLive THEN rl \in LbxAnswers(g.rec.tmdb)
              ELSE rl = CHOOSE r \in LbxResponses : TRUE
           \* a live fetch starts with Wait on config.RateLimiter, a step of
           \* the Letterboxd lookup with Wait on config.LetterboxdRateLimiter
           /\ (g.live \/ lbxLive) => wired
           /\ upstream' = IF env = "free" THEN upstream
                          ELSE [upstream EXCEPT ![em] = IF g.live THEN rm ELSE @]
           /\ lbxUpstream' = IF env = "steady" /\ lbxLive
                             THEN [lbxUpstream EXCEPT ![g.rec.tmdb] = rl]
                             ELSE lbxUpstream
           /\ primary' = Append(primary, IF g.existing THEN "existing"
                                         ELSE IF g.live THEN RespKind(rm) ELSE "cached")
           /\ entityCache' = g.cache
           /\ IF g.err # NoErr
              THEN /\ IF IsNotFoundError(g.err)
                      THEN /\ newNotExist' = Append(newNotExist, k)
                           /\ stats' = NotFoundStats(stats, k)
                      ELSE UNCHANGED <<newNotExist, stats>>
                   /\ reqs' = reqs \cup {<<"movie", idx>>}
                   /\ acquired' = acquired \cup {<<"movie", idx>>}
                   /\ UNCHANGED <<resultsMap, lbxCache, lbxTried>>
              ELSE /\ stats' = st2
                   /\ resultsMap' = (k :> final) @@ resultsMap
                   /\ lbxCache' = u.cache
                   /\ lbxTried' = IF u.tried THEN lbxTried \cup {idx} ELSE lbxTried
                   /\ reqs' = reqs \cup (IF g.live THEN {<<"movie", idx>>} ELSE {})
                                   \cup {<<svc, idx>> : svc \in u.reqs}
                   /\ acquired' = acquired \cup (IF g.live THEN {<<"movie", idx>>} ELSE {})
                                           \cup {<<svc, idx>> : svc \in u.reqs}
                   /\ UNCHANGED newNotExist
           /\ last' = IF g.err # NoErr THEN NoLast
                      ELSE Last("none", ~g.existing, TRUE, u.rec, final)
           /\ idx' = idx + 1
           /\ UNCHANGED <<kind, env, input, outFile, nfFile, seasonCache, pc, cfgVars,
                          overridesMap, existingOutput, existingMap, notExistMap, runs,
                          histVars, engineVars, retryVars, limiterVars, mutexVars, wired,
                          tvBatch>>

(***************************************************************************)
(* The end of ProcessShows / ProcessMovies: SaveResults and SaveNotFound.  *)
(***************************************************************************)
Persist ==
    /\ pc = "loop" /\ idx > Len(input)
    /\ \E order \in Orders(DOMAIN resultsMap) :
         outFile' = IF kind = "tv" THEN SaveResults(resultsMap, order)
                    ELSE SaveMovieResults(resultsMap, order)
    /\ nfFile' = SaveNotFound(nfFile, newNotExist, notExistMap)
    /\ pc' = "saved"
    /\ UNCHANGED <<kind, env, input, lbxCache, cacheVars, envVars, cfgVars, loopVars, runs,
                   histVars, engineVars, retryVars, limiterVars, mutexVars, mainVars>>

(***************************************************************************)
(* The deferred clean-up of main: the show, movie and season caches are    *)
(* removed, the Letterboxd cache is kept, and the process, with all its    *)
(* maps and lists, is gone.  (In a steady environment the flags and the    *)
(* override file stay as they are for the next run.)                       *)
(***************************************************************************)
\* The deferred function of main that removes nothing.
CleanUpNothing(entities, seasons, letterboxd) ==
    [entities |-> entities, seasons |-> seasons, letterboxd |-> letterboxd]

\* The cache directories once the deferred function of main has run.
CleanUp(entities, seasons, letterboxd) ==
    [entities |-> [t \in TraktIds |-> NoEnt], seasons |-> [t \in TraktIds |-> NoList],
     letterboxd |-> letterboxd]

Exit ==
    /\ pc = "saved"
    /\ \E d \in {CleanUp(entityCache, seasonCache, lbxCache)} :
         /\ entityCache' = d.entities
         /\ seasonCache' = d.seasons
         /\ lbxCache' = d.letterboxd
    /\ pc' = "idle"
    /\ runs' = runs + 1
    /\ IF env = "steady" THEN UNCHANGED cfgVars
       ELSE config' = NoConfig /\ ovFile' = NoOverrides
    /\ idx' = 1
    /\ overridesMap' = LoadOverrides(NoOverrides)
    /\ existingOutput' = <<>>
    /\ existingMap' = EmptyMap
    /\ resultsMap' = EmptyMap
    /\ notExistMap' = {}
    /\ newNotExist' = <<>>
    /\ stats' = NoStats
    /\ reqs' = {}
    /\ primary' = <<>>
    /\ lbxTried' = {}
    /\ last' = NoLast
    /\ ledgerHist' = ledgerHist \cup LoadNotFound(nfFile)
    /\ seen404' = seen404 \cup {input[i].mal : i \in {j \in 1..Len(primary) : primary[j] = "s404"}}
    /\ acquired' = {}
    /\ tvBatch' = NoBatch
    /\ UNCHANGED <<kind, env, input, outFile, nfFile, envVars, engineVars, retryVars,
                   limiterVars, mutexVars, wired>>

(***************************************************************************)
(* Fatal errors.  LoadJSON and SaveJSON end the process with log.Fatalf:   *)
(* os.Exit runs no deferred function, so the clean-up of main is skipped   *)
(* and the show, movie and season caches stay on disk.  A run that ends    *)
(* this way has persisted nothing after the failing write.                 *)
(***************************************************************************)
ProcessGone(shows, seasons) ==
    /\ entityCache' = shows
    /\ seasonCache' = seasons
    /\ pc' = "idle"
    /\ runs' = runs + 1
    /\ config' = NoConfig /\ ovFile' = NoOverrides
    /\ idx' = 1
    /\ overridesMap' = LoadOverrides(NoOverrides)
    /\ existingOutput' = <<>>
    /\ existingMap' = EmptyMap
    /\ resultsMap' = EmptyMap
    /\ notExistMap' = {}
    /\ newNotExist' = <<>>
    /\ stats' = NoStats
    /\ reqs' = {}
    /\ primary' = <<>>
    /\ lbxTried' = {}
    /\ last' = NoLast
    /\ ledgerHist' = ledgerHist \cup LoadNotFound(nfFile)
    /\ acquired' = {}
    /\ tvBatch' = NoBatch
    /\ UNCHANGED <<kind, env, input, nfFile, lbxCache, envVars, seen404, engineVars,
                   retryVars, limiterVars, mutexVars, wired>>

\* LoadJSON cannot open, read or parse the primary input file.
AbortOnInput ==
    /\ env = "free" /\ pc = "idle" /\ runs < MaxRuns
    /\ runs' = runs + 1
    /\ UNCHANGED <<kind, env, input, fileVars, cacheVars, envVars, pc, cfgVars, loopVars,
                   histVars, engineVars, retryVars, limiterVars, mutexVars, mainVars>>

\* FetchLetterboxdInfo has resolved the film and SaveJSON cannot write its
\* cache file.
CrashOnLetterboxdCache ==
    /\ env = "free" /\ wired /\ pc = "loop" /\ kind = "movies" /\ idx <= Len(input)
    /\ LET movie == input[idx]
           em == <<"movie", movie.trakt>>
       IN
       /\ ~Ignored(movie.mal)
       /\ ~shouldSkipMovie(movie, resultsMap, notExistMap, config.force)
       /\ \E rm \in Answers(em, MovieResponses) :
            LET g == getMovieData(entityCache, config.force, movie, resultsMap, rm)
                u == updateLetterboxdInfo(lbxCache, config.force, g.rec, "found")
            IN /\ g.err = NoErr
               /\ u.reqs # {}
               /\ (~g.live => rm = CHOOSE r \in Answers(em, MovieResponses) : TRUE)
               /\ ProcessGone(g.cache, seasonCache)
    /\ UNCHANGED outFile

\* SaveJSON cannot write the output file (nothing is persisted), or it
\* cannot write the ledger file after the output file was written.
CrashOnSave ==
    /\ env = "free" /\ pc = "loop" /\ idx > Len(input)
    /\ \/ UNCHANGED outFile
       \/ /\ Len(newNotExist) > 0
          /\ \E order \in Orders(DOMAIN resultsMap) :
               outFile' = IF kind = "tv" THEN SaveResults(resultsMap, order)
                          ELSE SaveMovieResults(resultsMap, order)
    /\ ProcessGone(entityCache, seasonCache)

(***************************************************************************)
(* A Config whose limiters are nil.  Wait on a nil *RateLimiter panics at   *)
(* rl.mu.Lock(), the first thing it does: no token is taken and no request  *)
(* is sent.  The panic unwinds to main, whose deferred function runs, and   *)
(* the process ends without having persisted anything.                     *)
(***************************************************************************)
PanicOnWait ==
    /\ pc = "loop" /\ idx <= Len(input) /\ ~wired
    /\ ~Ignored(input[idx].mal)
    /\ IF kind = "tv" THEN ~shouldSkipShow(input[idx], resultsMap, notExistMap, config.force)
       ELSE ~shouldSkipMovie(input[idx], resultsMap, notExistMap, config.force)
    /\ LET rec == input[idx] IN
           IF kind = "tv"
           THEN \E rs \in ShowResponses, rq \in SeasonResponses :
                  \E g \in {getShowData(entityCache, seasonCache, config.force, rec, rs, rq)} :
                    g.live \/ g.seasonLive
           ELSE \E rm \in MovieResponses, rl \in LbxResponses :
                  \E g \in {getMovieData(entityCache, config.force, rec, resultsMap, rm)} :
                    g.live \/ (g.err = NoErr
                                /\ updateLetterboxdInfo(lbxCache, config.force, g.rec, rl).reqs # {})
    /\ pc' = "panic"
    /\ UNCHANGED <<kind, env, input, fileVars, cacheVars, envVars, cfgVars, loopVars, runs,
                   histVars, engineVars, retryVars, limiterVars, mutexVars, mainVars>>

\* The deferred function of main during the panic, and the end of the process.
Unwind ==
    /\ pc = "panic"
    /\ \E d \in {CleanUp(entityCache, seasonCache, lbxCache)} :
         /\ entityCache' = d.entities
         /\ seasonCache' = d.seasons
         /\ lbxCache' = d.letterboxd
    /\ pc' = "idle"
    /\ runs' = runs + 1
    /\ IF env = "steady" THEN UNCHANGED cfgVars
       ELSE config' = NoConfig /\ ovFile' = NoOverrides
    /\ idx' = 1
    /\ overridesMap' = LoadOverrides(NoOverrides)
    /\ existingOutput' = <<>>
    /\ existingMap' = EmptyMap
    /\ resultsMap' = EmptyMap
    /\ notExistMap' = {}
    /\ newNotExist' = <<>>
    /\ stats' = NoStats
    /\ reqs' = {}
    /\ primary' = <<>>
    /\ lbxTried' = {}
    /\ last' = NoLast
    /\ ledgerHist' = ledgerHist \cup LoadNotFound(nfFile)
    /\ acquired' = {}
    /\ tvBatch' = NoBatch
    /\ UNCHANGED <<kind, env, input, outFile, nfFile, envVars, seen404, engineVars,
                   retryVars, limiterVars, mutexVars, wired>>

Next ==
    \/ \E frc \in BOOLEAN, ovf \in OverrideFiles : StartRun(frc, ovf)
    \/ ProcessShowRecord
    \/ ProcessMovieRecord
    \/ Persist
    \/ Exit
    \/ AbortOnInput
    \/ CrashOnLetterboxdCache
    \/ CrashOnSave
    \/ PanicOnWait
    \/ Unwind

Spec == Init /\ [][Next]_vars

(***************************************************************************)
(* The override engine alone: ApplyShowOverride / ApplyMovieOverride       *)
(* applied again and again to one record with one Override.  The Override  *)
(* values are those a caller can build, with or without a "trakt" patch.   *)
(***************************************************************************)
MaxApply == 2

OverrideValues ==
    [ignore : BOOLEAN, hasTrakt : BOOLEAN, tid : {Nil, 9}, tslug : {Nil, 1009},
     hasExt : BOOLEAN, etmdb : {Nil} \cup TmdbIds, elb : {Nil} \cup TmdbIds]

EngineRecords ==
    {Rec(k, t, Slug(t), Nil, FALSE, tm, l) :
        k \in {1}, t \in TraktIds, tm \in {Nil} \cup TmdbIds, l \in {Nil} \cup TmdbIds}

InitOverride ==
    /\ kind \in {"tv", "movies"}
    /\ env = "free"
    /\ input = <<>>
    /\ Idle
    /\ wired = FALSE
    /\ ovIn \in EngineRecords
    /\ ovArg \in OverrideValues
    /\ ovOut = <<>>
    /\ RetryIdle
    /\ LimiterIdle

ApplyOverride ==
    /\ Len(ovOut) < MaxApply
    /\ LET cur == IF ovOut = <<>> THEN ovIn ELSE ovOut[Len(ovOut)] IN
       ovOut' = Append(ovOut, IF kind = "tv" THEN ApplyShowOverride(cur, ovArg)
                              ELSE ApplyMovieOverride(cur, ovArg))
    /\ UNCHANGED <<kind, env, input, fileVars, cacheVars, envVars, pc, cfgVars, loopVars,
                   runs, histVars, ovIn, ovArg, retryVars, limiterVars, mutexVars, mainVars>>

NextOverride == ApplyOverride

SpecOverride == InitOverride /\ [][NextOverride]_vars

(***************************************************************************)
(* RetryWithBackoff alone, one iteration of its loop per step: the call of *)
(* fn, the three tests on what it returned and, on a retry, the sleep.     *)
(* The statement after the loop is not reached when MaxRetries >= 0: the   *)
(* iteration with attempt = MaxRetries always returns.                     *)
(***************************************************************************)
MaxRetriesTop == 3

\* The policies: DefaultRetryConfig and smaller ones whose cap is met within
\* MaxRetriesTop retries.  InitialBackoff <= MaxBackoff, as in the default.
RetryConfigs ==
    {DefaultRetryConfig} \cup
    {RetryConfig(m, i, x) : m \in 0..MaxRetriesTop, i \in {1, 2}, x \in {2, 3}}

\* What fn may return.  http.Client.Do gives a nil response with every error
\* but a failed CheckRedirect, which comes with the last 3xx response.
FnResults ==
    {FnResult(200, NoHeader, NoErr), FnResult(500, NoHeader, NoErr),
     FnResult(Nil, NoHeader, ErrTimeout), FnResult(Nil, NoHeader, ErrDial),
     FnResult(302, NoHeader, ErrRedirect),
     FnResult(403, NoHeader, NoErr)}
    \cup {FnResult(429, ra, NoErr) : ra \in {NoHeader, HttpDate, 0, 1, 5}}

Retryable(res) == res.status \in {429, 403}

\* time.ParseDuration(retryAfter + "s"): decimal seconds parse, a date does not.
ParseDuration(retryAfter) ==
    IF retryAfter >= 0 THEN [ok |-> TRUE, d |-> retryAfter] ELSE [ok |-> FALSE, d |-> 0]

\* The Retry-After header left unread.
HonorRetryAfterIgnored(b, res) == b

\* The backoff once the Retry-After header of res has been looked at.
HonorRetryAfter(b, res) ==
    IF res.retryAfter # NoHeader /\ ParseDuration(res.retryAfter).ok
    THEN ParseDuration(res.retryAfter).d
    ELSE b

Min(a, b) == IF a < b THEN a ELSE b
Max(a, b) == IF a > b THEN a ELSE b

\* The backoff after a sleep, without the cap.
NextBackoffUncapped(b, cfg) == b * 2

\* The backoff after a sleep, halved instead of doubled.
NextBackoffHalved(b, cfg) == Min(b \div 2, cfg.maxBackoff)

\* The backoff after a sleep.
NextBackoff(b, cfg) == Min(b * 2, cfg.maxBackoff)

RateLimited(status) ==
    <<Lit("rate limited or blocked (")>> \o Digits(status) \o <<Lit(")")>>

\* The second test of the loop, never taken.
NonRetryableNever(res) == FALSE

\* The second test of the loop: an error that comes with no 429/403 response.
NonRetryable(res) == res.err # NoErr /\ (res.status = Nil \/ ~Retryable(res))

InitRetry ==
    /\ kind = "tv"
    /\ env = "free"
    /\ input = <<>>
    /\ Idle
    /\ wired = FALSE
    /\ ovIn = NoRec
    /\ ovArg = Override(NoOv)
    /\ ovOut = <<>>
    /\ LimiterIdle
    /\ retryConfig \in RetryConfigs
    /\ attempt = 0
    /\ backoff = retryConfig.initialBackoff
    /\ lastErr = NoErr
    /\ fnCalls = 0
    /\ answers = <<>>
    /\ sleeps = <<>>
    /\ ret = NoReturn

RetryIteration(res) ==
    /\ ~ret.done /\ attempt <= retryConfig.maxRetries
    /\ fnCalls' = fnCalls + 1
    /\ answers' = Append(answers, res)
    /\ IF res.err = NoErr /\ ~Retryable(res)
       THEN /\ ret' = Returned(res, NoErr)
            /\ UNCHANGED <<attempt, backoff, lastErr, sleeps>>
       ELSE IF NonRetryable(res)
       THEN /\ ret' = Returned(res, res.err)
            /\ UNCHANGED <<attempt, backoff, lastErr, sleeps>>
       ELSE IF res.status # Nil /\ Retryable(res)
       THEN \E b \in {HonorRetryAfter(backoff, res)} :
            /\ lastErr' = RateLimited(res.status)
            /\ IF attempt < retryConfig.maxRetries
               THEN /\ sleeps' = Append(sleeps, b)
                    /\ backoff' = NextBackoff(b, retryConfig)
                    /\ attempt' = attempt + 1
                    /\ UNCHANGED ret
               ELSE /\ backoff' = b
                    /\ ret' = Returned(res, RateLimited(res.status))
                    /\ UNCHANGED <<attempt, sleeps>>
       ELSE /\ ret' = Returned(res, lastErr)
            /\ UNCHANGED <<attempt, backoff, lastErr, sleeps>>
    /\ UNCHANGED <<kind, env, input, fileVars, cacheVars, envVars, pc, cfgVars, loopVars,
                   runs, histVars, engineVars, retryConfig, limiterVars, mutexVars, mainVars>>

NextRetry == \E res \in FnResults : RetryIteration(res)

SpecRetry == InitRetry /\ [][NextRetry]_vars

InitRetryAny ==
    /\ kind = "tv"
    /\ env = "free"
    /\ input = <<>>
    /\ Idle
    /\ wired = FALSE
    /\ ovIn = NoRec
    /\ ovArg = Override(NoOv)
    /\ ovOut = <<>>
    /\ LimiterIdle
    /\ retryConfig \in RetryConfigs \cup {RetryConfig(m, 3, 2) : m \in 0..MaxRetriesTop}
    /\ attempt = 0
    /\ backoff = retryConfig.initialBackoff
    /\ lastErr = NoErr
    /\ fnCalls = 0
    /\ answers = <<>>
    /\ sleeps = <<>>
    /\ ret = NoReturn

SpecRetryAny == InitRetryAny /\ [][NextRetry]_vars

(***************************************************************************)
(* RateLimiter alone.  A pass is one turn of the loop of Wait, made with   *)
(* the mutex held: the refill, the test and either the return or the       *)
(* computation of waitTime; the sleep between two passes is made without   *)
(* the mutex.  Each caller makes at most MaxCalls calls, one after the     *)
(* other; the callers run concurrently.                                    *)
(***************************************************************************)
MaxCalls == 2

\* Capacity and window of the limiters: one token per two ticks.
Limiters == {NewRateLimiter(1, 2), NewRateLimiter(2, 4)}

\* A token that costs nothing.
OneTokenFree(l) == 0

OneToken(l) == l.windowSize

\* The refill that adds nothing.
RefillNothing(l) == l

\* The refill at the start of a pass; refillRate * elapsed is
\* maxRequests * elapsed in the units of tokens.
Refill(l) ==
    LET tokensToAdd == l.maxRequests * l.elapsed IN
    IF tokensToAdd > 0
    THEN [l EXCEPT !.tokens = Min(l.maxRequests * l.windowSize, @ + tokensToAdd),
                   !.elapsed = 0]
    ELSE l

\* waitTime without its 100 ms floor.
WaitTimeNoFloor(l) == (OneToken(l) - l.tokens) \div l.maxRequests

\* waitTime: (1 - tokens) / refillRate, at least 100 ms.
WaitTime(l) == Max(MinSleep, (OneToken(l) - l.tokens) \div l.maxRequests)

InitLimiter ==
    /\ kind = "tv"
    /\ env = "free"
    /\ input = <<>>
    /\ Idle
    /\ wired = FALSE
    /\ ovIn = NoRec
    /\ ovArg = Override(NoOv)
    /\ ovOut = <<>>
    /\ RetryIdle
    /\ limiter \in Limiters
    /\ waiting = [c \in Callers |-> FALSE]
    /\ sleepLeft = [c \in Callers |-> 0]
    /\ waitCalls = [c \in Callers |-> 0]
    /\ taken = 0
    /\ mu = Nil
    /\ at = [c \in Callers |-> "out"]
    /\ clock = 0

WaitPass(c) ==
    \E l \in {Refill(limiter)} :
        IF l.tokens >= OneToken(l)
        THEN /\ limiter' = [l EXCEPT !.tokens = @ - OneToken(l)]
             /\ waiting' = [waiting EXCEPT ![c] = FALSE]
             /\ taken' = taken + 1
             /\ UNCHANGED sleepLeft
        ELSE /\ limiter' = l
             /\ waiting' = [waiting EXCEPT ![c] = TRUE]
             /\ sleepLeft' = [sleepLeft EXCEPT ![c] = WaitTime(l)]
             /\ UNCHANGED taken

\* Caller c calls Wait: the first pass.
Wait(c) ==
    /\ ~waiting[c] /\ waitCalls[c] < MaxCalls
    /\ waitCalls' = [waitCalls EXCEPT ![c] = @ + 1]
    /\ WaitPass(c)
    /\ UNCHANGED <<kind, env, input, fileVars, cacheVars, envVars, pc, cfgVars, loopVars,
                   runs, histVars, engineVars, retryVars, mutexVars, mainVars>>

\* time.Sleep(waitTime) of caller c is over: the next pass.
WakeUp(c) ==
    /\ waiting[c] /\ sleepLeft[c] = 0
    /\ WaitPass(c)
    /\ UNCHANGED <<kind, env, input, fileVars, cacheVars, envVars, pc, cfgVars, loopVars,
                   runs, histVars, engineVars, retryVars, waitCalls, mutexVars,
                   mainVars>>

\* One tick of time goes by.
Tick ==
    /\ limiter' = [limiter EXCEPT !.elapsed = Min(@ + 1, limiter.windowSize)]
    /\ sleepLeft' = [c \in Callers |-> Max(0, sleepLeft[c] - 1)]
    /\ UNCHANGED <<kind, env, input, fileVars, cacheVars, envVars, pc, cfgVars, loopVars,
                   runs, histVars, engineVars, retryVars, waiting, waitCalls, taken,
                   mutexVars, mainVars>>

NextLimiter ==
    \/ \E c \in Callers : Wait(c)
    \/ \E c \in Callers : WakeUp(c)
    \/ Tick

SpecLimiter == InitLimiter /\ [][NextLimiter]_vars

\* Time advances and a caller whose sleep is over is scheduled.
SpecLimiterLive ==
    SpecLimiter /\ WF_vars(Tick) /\ \A c \in Callers : WF_vars(WakeUp(c))

(***************************************************************************)
(* RateLimiter statement by statement.  A caller is "out" of Wait, blocked *)
(* in rl.mu.Lock() ("lock": the call at the top of Wait or the one after   *)
(* the sleep), at the top of the loop with the mutex ("loop"), about to    *)
(* return through the deferred rl.mu.Unlock() ("return"), about to call    *)
(* rl.mu.Unlock() before the sleep ("unlock"), or in time.Sleep ("sleep"). *)
(* mu names the caller that locked the mutex last and has not unlocked it. *)
(***************************************************************************)
MaxClock == 8

\* Where a pass goes after its test, for a Wait that sleeps with the mutex.
AfterTestKeepsMutex(enough) == IF enough THEN "return" ELSE "sleep"

\* Where a pass goes after the test rl.tokens >= 1.
AfterTest(enough) == IF enough THEN "return" ELSE "unlock"

\* Caller c calls Wait.
Call(c) ==
    /\ at[c] = "out" /\ waitCalls[c] < MaxCalls
    /\ waitCalls' = [waitCalls EXCEPT ![c] = @ + 1]
    /\ at' = [at EXCEPT ![c] = "lock"]
    /\ UNCHANGED <<kind, env, input, fileVars, cacheVars, envVars, pc, cfgVars, loopVars,
                   runs, histVars, engineVars, retryVars, limiter, waiting, sleepLeft,
                   taken, mu, clock, mainVars>>

\* rl.mu.Lock() returns to caller c.
Lock(c) ==
    /\ at[c] = "lock" /\ mu = Nil
    /\ mu' = c
    /\ at' = [at EXCEPT ![c] = "loop"]
    /\ UNCHANGED <<kind, env, input, fileVars, cacheVars, envVars, pc, cfgVars, loopVars,
                   runs, histVars, engineVars, retryVars, limiterVars, clock, mainVars>>

\* One turn of the loop up to the return statement or to the computation of
\* waitTime: the only statements that read and write tokens and lastRefill.
Pass(c) ==
    /\ at[c] = "loop"
    /\ \E l \in {Refill(limiter)} :
         /\ at' = [at EXCEPT ![c] = AfterTest(l.tokens >= OneToken(l))]
         /\ IF l.tokens >= OneToken(l)
            THEN /\ limiter' = [l EXCEPT !.tokens = @ - OneToken(l)]
                 /\ taken' = taken + 1
                 /\ UNCHANGED sleepLeft
            ELSE /\ limiter' = l
                 /\ sleepLeft' = [sleepLeft EXCEPT ![c] = WaitTime(l)]
                 /\ UNCHANGED taken
    /\ UNCHANGED <<kind, env, input, fileVars, cacheVars, envVars, pc, cfgVars, loopVars,
                   runs, histVars, engineVars, retryVars, waiting, waitCalls, mu, clock,
                   mainVars>>

\* rl.mu.Unlock() called by c: the deferred call when Wait returns, or the
\* call before the sleep.  Unlock does not ask who locked the mutex.
Unlock(c) ==
    /\ at[c] \in {"return", "unlock"}
    /\ mu' = Nil
    /\ at' = [at EXCEPT ![c] = IF @ = "return" THEN "out" ELSE "sleep"]
    /\ UNCHANGED <<kind, env, input, fileVars, cacheVars, envVars, pc, cfgVars, loopVars,
                   runs, histVars, engineVars, retryVars, limiterVars, clock, mainVars>>

\* time.Sleep(waitTime) of caller c is over.
Awake(c) ==
    /\ at[c] = "sleep" /\ sleepLeft[c] = 0
    /\ at' = [at EXCEPT ![c] = "lock"]
    /\ UNCHANGED <<kind, env, input, fileVars, cacheVars, envVars, pc, cfgVars, loopVars,
                   runs, histVars, engineVars, retryVars, limiterVars, mu, clock, mainVars>>

\* One tick of time goes by, for the clock and for the callers that sleep.
TickClock ==
    /\ clock' = Min(clock + 1, MaxClock)
    /\ limiter' = [limiter EXCEPT !.elapsed = Min(@ + 1, limiter.windowSize)]
    /\ sleepLeft' = [c \in Callers |->
                        IF at[c] = "sleep" THEN Max(0, sleepLeft[c] - 1) ELSE sleepLeft[c]]
    /\ UNCHANGED <<kind, env, input, fileVars, cacheVars, envVars, pc, cfgVars, loopVars,
                   runs, histVars, engineVars, retryVars, waiting, waitCalls, taken, mu, at,
                   mainVars>>

NextMutex ==
    \/ \E c \in Callers : Call(c)
    \/ \E c \in Callers : Lock(c)
    \/ \E c \in Callers : Pass(c)
    \/ \E c \in Callers : Unlock(c)
    \/ \E c \in Callers : Awake(c)
    \/ TickClock

SpecMutex == InitLimiter /\ [][NextMutex]_vars

(***************************************************************************)
(* One fetcher after another on the goroutine of main, each one a call of  *)
(* Wait on the limiter of its service followed by RetryWithBackoff with    *)
(* the default policy around client.Do.  Here fnCalls counts the requests  *)
(* of all the fetches and taken the tokens deducted for them.              *)
(***************************************************************************)
MainCaller == 1

\* A fetcher that missed its cache calls Wait; its RetryWithBackoff starts
\* from attempt 0 and the initial backoff.
FetchCall ==
    /\ at[MainCaller] = "out" /\ waitCalls[MainCaller] < MaxCalls
    /\ waitCalls[MainCaller] = 0 \/ ret.done
    /\ waitCalls' = [waitCalls EXCEPT ![MainCaller] = @ + 1]
    /\ at' = [at EXCEPT ![MainCaller] = "lock"]
    /\ attempt' = 0
    /\ backoff' = retryConfig.initialBackoff
    /\ lastErr' = NoErr
    /\ answers' = <<>>
    /\ sleeps' = <<>>
    /\ ret' = NoReturn
    /\ UNCHANGED <<kind, env, input, fileVars, cacheVars, envVars, pc, cfgVars, loopVars,
                   runs, histVars, engineVars, retryConfig, fnCalls, limiter, waiting,
                   sleepLeft, taken, mu, clock, mainVars>>

\* One request of the fetcher: fn() inside RetryWithBackoff.
FetchRequest(res) ==
    /\ at[MainCaller] = "out" /\ waitCalls[MainCaller] > 0
    /\ RetryIteration(res)

NextFetch ==
    \/ FetchCall
    \/ Lock(MainCaller)
    \/ Pass(MainCaller)
    \/ Unlock(MainCaller)
    \/ Awake(MainCaller)
    \/ TickClock
    \/ \E res \in {FnResult(200, NoHeader, NoErr), FnResult(Nil, NoHeader, ErrTimeout),
               FnResult(403, NoHeader, NoErr), FnResult(429, NoHeader, NoErr),
               FnResult(429, 1, NoErr)} :
         FetchRequest(res)

SpecFetch == InitLimiter /\ [][NextFetch]_vars

(***************************************************************************)
(* One process started with -tv and -movies: main calls ProcessShows and   *)
(* then ProcessMovies with the same Config.  With -output both write the   *)
(* file named there and keep their ledger beside it; without it each one   *)
(* derives its own file from the name of its input.  At the hand-over the  *)
(* variables outFile and nfFile become the files of ProcessMovies and      *)
(* entityCache the movies/ directory; tvBatch keeps what ProcessShows has  *)
(* saved and, when the files differ, the output file of the shows.         *)
(***************************************************************************)
MaxBatch == 1

\* LoadJSONOptional(outputFile, &existingOutput) with []OutputMovie:
\* trakt.season and trakt.is_split_cour of a record have no field to go to.
DecodeMovies(file) ==
    [i \in 1..Len(file) |-> [file[i] EXCEPT !.season = Nil, !.split = FALSE]]

InitBoth ==
    /\ kind = "tv"
    /\ env = "free"
    /\ input \in {l \in InputLists : Len(l) <= MaxBatch}
    /\ Idle
    /\ wired \in BOOLEAN
    /\ ovIn = NoRec
    /\ ovArg = Override(NoOv)
    /\ ovOut = <<>>
    /\ RetryIdle
    /\ LimiterIdle

\* main calls ProcessShows.
StartShows(frc, ovf) == kind = "tv" /\ runs = 0 /\ StartRun(frc, ovf)

\* ProcessShows has returned and main calls ProcessMovies: custom tells
\* whether config.OutputFile is set, movies is the file given with -movies,
\* ovf the override file of the movies.
StartMovies(custom, movies, ovf) ==
    /\ pc = "saved" /\ kind = "tv" /\ ~tvBatch.done
    /\ kind' = "movies"
    /\ input' = movies
    /\ tvBatch' = [done |-> TRUE, custom |-> custom, saved |-> outFile, file |-> outFile]
    /\ outFile' = IF custom THEN outFile ELSE <<>>
    /\ nfFile' = IF custom THEN nfFile ELSE <<>>
    /\ entityCache' = [t \in TraktIds |-> NoEnt]
    /\ pc' = "loop"
    /\ ovFile' = ovf
    /\ idx' = 1
    /\ overridesMap' = LoadOverrides(ovf)
    /\ \E loaded \in {DecodeMovies(outFile')} :
         /\ existingOutput' = loaded
         /\ resultsMap' = IF config.force THEN EmptyMap ELSE MapOf(loaded)
         /\ existingMap' = IF config.force THEN EmptyMap ELSE MapOf(loaded)
    /\ notExistMap' = LoadNotFound(nfFile')
    /\ newNotExist' = <<>>
    /\ stats' = NoStats
    /\ reqs' = {}
    /\ primary' = <<>>
    /\ lbxTried' = {}
    /\ last' = NoLast
    /\ acquired' = {}
    /\ UNCHANGED <<env, lbxCache, seasonCache, envVars, config, runs, histVars, engineVars,
                   retryVars, limiterVars, mutexVars, wired>>

\* ProcessMovies has returned, and main with it.
ExitBoth == tvBatch.done /\ Exit

NextBoth ==
    \/ \E frc \in BOOLEAN, ovf \in OverrideFiles : StartShows(frc, ovf)
    \/ ProcessShowRecord
    \/ Persist
    \/ \E custom \in BOOLEAN, movies \in {l \in InputLists : Len(l) <= MaxBatch},
          ovf \in OverrideFiles :
         StartMovies(custom, movies, ovf)
    \/ ProcessMovieRecord
    \/ ExitBoth
    \/ PanicOnWait
    \/ Unwind

SpecBoth == InitBoth /\ [][NextBoth]_vars

(***************************************************************************)
(* Properties.                                                             *)
(***************************************************************************)
InRun == pc \in {"loop", "saved"}
Processed == 1..(idx - 1)
ExistingKeys == KeysOf(existingOutput)
PrimaryServices == {"show", "season", "movie"}
LetterboxdServices == {"lbx1", "lbx2"}
RequestsFor(i) == {r \in reqs : r[2] = i}
PrimaryRequestsFor(i) == {r \in RequestsFor(i) : r[1] \in PrimaryServices}
Count(list, k) == Cardinality({i \in 1..Len(list) : list[i] = k})
\* the step that processes input record idx
RecordStep == pc = "loop" /\ pc' = "loop" /\ idx' = idx + 1
\* the step in which ProcessShows / ProcessMovies persists its results
PersistStep == pc = "loop" /\ pc' = "saved"

\* C1: with force-refresh off, no request goes to the primary service (show,
\* movie or season endpoint) for an input record whose source key is in the
\* existing output file.
C1_NoPrimaryFetchForExisting ==
    (InRun /\ ~config.force) =>
        \A i \in Processed :
            input[i].mal \in ExistingKeys => PrimaryRequestsFor(i) = {}

\* A show whose key is in the existing output has been skipped, force off.
C1_Witness ==
    /\ pc = "saved" /\ kind = "tv" /\ ~config.force
    /\ \E i \in Processed : input[i].mal \in ExistingKeys /\ primary[i] = "skipped"

C3_LedgerKeyNeverRefetched ==
    (InRun /\ ~config.force) =>
        \A i \in Processed :
            input[i].mal \in (ledgerHist \cup seen404) =>
                /\ RequestsFor(i) = {}
                /\ input[i].mal \in DOMAIN resultsMap => input[i].mal \in ExistingKeys
                /\ (pc = "saved" /\ input[i].mal \in KeysOf(outFile))
                       => input[i].mal \in ExistingKeys

\* A second run, force off, has skipped a record whose fetch returned 404 in
\* the run before.
C3_Witness ==
    /\ pc = "saved" /\ ~config.force
    /\ \E i \in Processed : input[i].mal \in seen404 /\ primary[i] = "skipped"

\* C4: when the show/movie fetch of a record ends with HTTP 404, then after
\* the run its source key is in the persisted ledger, is absent from the
\* persisted output and occurs exactly once in the Not-Found classification
\* list of the run.
C4_NotFoundRecordedOnce ==
    pc = "saved" =>
        \A i \in Processed :
            primary[i] = "s404" =>
                /\ input[i].mal \in LoadNotFound(nfFile)
                /\ input[i].mal \notin KeysOf(outFile)
                /\ Count(stats.notFound, input[i].mal) = 1

\* C5: a record is added to the new-not-found batch only if the final HTTP
\* response of its fetch had status 404; a fetch that ends in a transport
\* failure, a malformed body, another status or retry exhaustion leaves the
\* result map, the not-found batch and the classification lists unchanged.
C5_OnlyHttp404IsNotFound ==
    [][RecordStep =>
         /\ Len(newNotExist') > Len(newNotExist) => primary'[idx] = "s404"
         /\ primary'[idx] \in {"transport", "malformed", "s500", "s429"}
                => UNCHANGED <<resultsMap, newNotExist, stats>>
      ]_vars

C8_NeverDeleted ==
    pc = "saved" => ExistingKeys \subseteq KeysOf(outFile)

\* C9: no source key is both in the persisted output and in the persisted
\* ledger, after any sequence of runs from files where none is in both.
C9_LedgerOutputDisjoint ==
    KeysOf(outFile) \cap LoadNotFound(nfFile) = {}

\* C10: the persisted output list is sorted by source key in strictly
\* ascending order, holds one record per source key, and holds exactly the
\* records of the final result map.
C10_OutputSortedAndComplete ==
    pc = "saved" =>
        /\ \A i \in 1..(Len(outFile) - 1) : outFile[i].mal < outFile[i + 1].mal
        /\ Len(outFile) = Cardinality(DOMAIN resultsMap)
        /\ {outFile[i] : i \in 1..Len(outFile)} = {resultsMap[k] : k \in DOMAIN resultsMap}

\* Two records have been persisted.
C10_Witness ==
    pc = "saved" /\ Len(outFile) = 2 /\ Cardinality(DOMAIN resultsMap) = 2

(***************************************************************************)
(* Classification, overrides, force-refresh and the ledger.                *)
(***************************************************************************)
\* the source key of the record the latest iteration processed
LastKey == input[idx - 1].mal
\* the record the existing output file holds for key k
Prior(k) == MapOf(existingOutput)[k]
\* the override changed the canonical ID, the slug or the cross-references
OverrideChanged(old, new) ==
    old.id # new.id \/ old.slug # new.slug \/ old.tmdb # new.tmdb \/ old.lb # new.lb
Grew(list, k) == list' = Append(list, k)

\* C11: a committed show record has is_split_cour = true if and only if the
\* requested season number is not in the upstream season list, and false
\* exactly when the season was found and the season block is populated.
C11_SplitIffSeasonAbsent ==
    (InRun /\ kind = "tv" /\ last.committed) =>
        /\ last.final.split <=> last.season = "absent"
        /\ ~last.final.split <=> (last.season = "found" /\ last.final.season # Nil)

\* C12: for a non-ignored override entry of the override file with a "trakt"
\* patch, the committed record has the patch's value in every patched field
\* (ID, slug), and a field whose patch is null keeps its fetched value.
C12_CanonicalPatchApplied ==
    (InRun /\ last.committed) =>
        LET e == ovFile[LastKey] IN
        (e.present /\ ~e.ignore) =>
            /\ last.final.id = IF e.tid # Nil THEN e.tid ELSE last.draft.id
            /\ last.final.slug = IF e.tslug # Nil THEN e.tslug ELSE last.draft.slug

\* C14: a record is classified Modified-by-Override in a run exactly when
\* applying its non-ignored override changes its canonical ID, its slug or a
\* field of its cross-reference set relative to the pre-override draft.
C14_ModifiedIffOverrideChanges ==
    [][(RecordStep /\ last'.committed /\ Patched(input[idx].mal)) =>
         IF OverrideChanged(last'.draft, last'.final)
         THEN Grew(stats.modified, input[idx].mal)
         ELSE stats'.modified = stats.modified
      ]_vars

\* C15: a processed record is reported in at most one classification list,
\* and a record that its override modified is reported as Modified only,
\* also when it is new or updated.
C15_OneBucketModifiedFirst ==
    [][RecordStep =>
         LET k == input[idx].mal
             grown == {f \in {"created", "updated", "modified", "notFound"} :
                          stats'[f] # stats[f]}
         IN /\ Cardinality(grown) <= 1
            /\ \A f \in grown : Grew(stats[f], k)
            /\ (last'.committed /\ Patched(k) /\ OverrideChanged(last'.draft, last'.final))
                   => grown = {"modified"}
      ]_vars

\* C16: a processed record with a prior Output Record in the existing output
\* whose freshly fetched entity differs from it in canonical ID or slug is
\* classified Updated.
C16_UpdatedWhenEntityDiffers ==
    [][(RecordStep /\ last'.committed /\ last'.fetched
           /\ input[idx].mal \in ExistingKeys
           /\ (\/ last'.draft.id # Prior(input[idx].mal).id
               \/ last'.draft.slug # Prior(input[idx].mal).slug))
        => Grew(stats.updated, input[idx].mal)
      ]_vars

\* C17: in every run mode a record is classified Created if and only if its
\* fetch succeeded and the existing output file holds no record for its key.
C17_CreatedIffNewKey ==
    [][RecordStep =>
         IF last'.committed /\ last'.fetched /\ input[idx].mal \notin ExistingKeys
         THEN Grew(stats.created, input[idx].mal)
         ELSE stats'.created = stats.created
      ]_vars

\* C18: in force-refresh mode every input record that is not ignored is
\* fetched live, whatever the cache, the existing output and the ledger hold.
C18_ForceFetchesEveryRecord ==
    [][(RecordStep /\ config.force /\ ~Ignored(input[idx].mal)) =>
         \E svc \in {"show", "movie"} : <<svc, idx>> \in reqs'
      ]_vars

\* C20: after a run the persisted ledger holds every entry it held before,
\* holds the keys newly observed as not found, and holds no source key twice
\* if it held none twice before.
C20_LedgerExtendedNoDuplicates ==
    [][PersistStep =>
         /\ Len(nfFile') >= Len(nfFile) /\ SubSeq(nfFile', 1, Len(nfFile)) = nfFile
         /\ \A i \in 1..Len(newNotExist) : newNotExist[i] \in LoadNotFound(nfFile')
         /\ (\A k \in Keys : Count(nfFile, k) <= 1)
                => (\A k \in Keys : Count(nfFile', k) <= 1)
      ]_vars

\* C13: applying an Override twice (ApplyShowOverride / ApplyMovieOverride)
\* yields the same Output Record as applying it once, for every record and
\* every Override.
C13_OverrideIdempotent ==
    \A i \in 2..Len(ovOut) : ovOut[i] = ovOut[1]

\* An Override with a canonical and a cross-reference patch has been applied
\* twice to a record that it changes.
C13_Witness ==
    /\ Len(ovOut) = 2 /\ ovOut[1] # ovIn
    /\ ovArg.hasTrakt /\ ovArg.tslug # Nil /\ ovArg.hasExt /\ ovArg.etmdb # Nil

\* C19: a failure to write a cache file or an output file does not abort
\* the run: a run that has entered its record loop goes on to the end of its
\* persist step; only unreadable or unparsable primary input ends a run, and
\* that before any record is processed.
C19_OnlyInputAborts ==
    [][pc = "loop" => pc' \in {"loop", "saved"}]_vars

\* C21: RetryWithBackoff invokes the request function at most max_retries
\* times in total, for every retry policy and every request function.
C21_AtMostMaxRetriesCalls ==
    fnCalls <= retryConfig.maxRetries

C23_SleepsNonDecreasing ==
    \A i \in 2..Len(sleeps) : sleeps[i - 1] <= sleeps[i]

\* C23, amended: a sleep is shorter than the one before it only when the
\* response just received carries Retry-After: N, and it then lasts N, or
\* when the response before it carried Retry-After: N with N above
\* max_backoff, and it then lasts max_backoff.
C23_DecreaseOnlyByRetryAfter ==
    \A i \in 2..Len(sleeps) :
        sleeps[i] < sleeps[i - 1]
            => \/ answers[i].retryAfter >= 0 /\ sleeps[i] = answers[i].retryAfter
               \/ /\ answers[i - 1].retryAfter > retryConfig.maxBackoff
                  /\ sleeps[i] = retryConfig.maxBackoff

\* Three sleeps, after responses of which some carry Retry-After: N and some
\* do not, and one of which is shorter than the sleep before it.
C23_Witness ==
    /\ Len(sleeps) = 3
    /\ \E i, j \in 1..3 : answers[i].retryAfter >= 0 /\ answers[j].retryAfter = NoHeader
    /\ \E i \in 2..3 : sleeps[i] < sleeps[i - 1]

\* C24: the sleep that follows a retryable response with Retry-After: N lasts
\* exactly N seconds; the sleep that follows one without the header lasts
\* double the previous sleep, capped at max_backoff (the initial backoff when
\* there is no previous sleep).
C24_RetryAfterElseDoubling ==
    \A i \in 1..Len(sleeps) :
        /\ answers[i].retryAfter >= 0 => sleeps[i] = answers[i].retryAfter
        /\ answers[i].retryAfter = NoHeader =>
              sleeps[i] = IF i = 1 THEN retryConfig.initialBackoff
                          ELSE IF 2 * sleeps[i - 1] < retryConfig.maxBackoff
                               THEN 2 * sleeps[i - 1]
                               ELSE retryConfig.maxBackoff

\* Retry-After: 5, then a retryable response without the header whose sleep
\* is the capped double, then Retry-After: 1.
C24_Witness ==
    /\ Len(sleeps) = 3
    /\ answers[1].retryAfter = 5 /\ sleeps[1] = 5
    /\ answers[2].retryAfter = NoHeader /\ sleeps[2] = retryConfig.maxBackoff
    /\ answers[3].retryAfter = 1 /\ sleeps[3] = 1

\* C26: an error that comes with no response, or with a response that is
\* neither 429 nor 403, is returned at once: it is the last thing the request
\* function was asked, no sleep follows it, and when it is the first answer the
\* function has been invoked exactly once and nothing has been slept.
C26_ErrorReturnedAtOnce ==
    \A i \in 1..Len(answers) :
        (answers[i].err # NoErr /\ answers[i].status \notin {429, 403})
        => /\ i = Len(answers)
           /\ ret = Returned(answers[i], answers[i].err)
           /\ fnCalls = i
           /\ Len(sleeps) = i - 1

\* The first answer was a transport error without a response, under a policy
\* that allowed further attempts.
C26_Witness ==
    /\ ret.done /\ fnCalls = 1 /\ sleeps = <<>>
    /\ answers[1] = FnResult(Nil, NoHeader, ErrDial)
    /\ retryConfig.maxRetries > 0

\* C27: a request that exceeds the per-request timeout is retried: while an
\* attempt remains, a sleep and a further invocation follow it.
C27_TimeoutIsRetried ==
    \A i \in 1..Len(answers) :
        (answers[i].err = ErrTimeout /\ i <= retryConfig.maxRetries)
        => Len(sleeps) >= i

\* C25: when every attempt of a show or movie fetch is answered 429/403,
\* RetryWithBackoff returns that response with a non-nil error and the
\* record becomes a per-record error: the loop goes on to the next record,
\* and the record enters neither the output nor the Not-Found Ledger.
C25_RateLimitedRecordDropped ==
    [][(pc = "loop" /\ Len(primary') = Len(primary) + 1
           /\ primary'[Len(primary')] = "s429")
        => /\ pc' = "loop" /\ idx' = idx + 1
           /\ resultsMap' = resultsMap
           /\ newNotExist' = newNotExist
           /\ \A r \in {Resp(429, FALSE, Nil, {})} :
                /\ RetryWithBackoff(r, ShowUrl(input[idx].trakt)).resp = r
                /\ RetryWithBackoff(r, ShowUrl(input[idx].trakt)).err # NoErr
      ]_vars

\* A record whose fetch was rate limited to the end has been passed over and
\* the record after it has been fetched and committed.
C25_Witness ==
    /\ pc = "loop" /\ primary = <<"s429", "ok">>
    /\ newNotExist = <<>> /\ DOMAIN resultsMap = {input[2].mal}
    /\ input[1].mal # input[2].mal

\* the step in which caller c makes a pass of Wait
PassBy(c) ==
    \/ waitCalls'[c] > waitCalls[c]
    \/ waiting[c] /\ (~waiting'[c] \/ sleepLeft'[c] > sleepLeft[c])
\* the tokens a pass finds once it has refilled the bucket
Refilled ==
    Min(limiter.maxRequests * limiter.windowSize,
        limiter.tokens + limiter.maxRequests * limiter.elapsed)

C30_CacheHitMakesNoRequest ==
    [][(RecordStep /\ ~config.force) =>
         /\ entityCache[input[idx].trakt] # NoEnt
               => <<"show", idx>> \notin reqs' /\ <<"movie", idx>> \notin reqs'
         /\ seasonCache[input[idx].trakt].has => <<"season", idx>> \notin reqs'
         /\ (last'.committed /\ last'.draft.tmdb \in lbxCache)
               => <<"lbx1", idx>> \notin reqs' /\ <<"lbx2", idx>> \notin reqs'
      ]_vars

(***************************************************************************)
(* The season cache, the limiters in a run, the clean-up and the two       *)
(* batches of one run.                                                     *)
(***************************************************************************)
\* C31: with force-refresh off, when a season list that parses is cached
\* for the show, FetchTraktSeason answers from that list alone: the season
\* when the requested number is in the list, season-not-present when it is
\* not, and no request is sent in either case.
C31_SeasonAnsweredFromCachedList ==
    [][(RecordStep /\ kind = "tv" /\ ~config.force /\ last'.committed
           /\ seasonCache[input[idx].trakt].has)
        => /\ <<"season", idx>> \notin reqs'
           /\ seasonCache' = seasonCache
           /\ last'.season = IF input[idx].season \in seasonCache[input[idx].trakt].nums
                             THEN "found" ELSE "absent"
      ]_vars

\* C39: every show record assembled by getShowData and committed in a run
\* has is_split_cour true if and only if its season block is null, and the
\* override applied after the assembly changes neither of the two fields;
\* so the same holds of every record of the persisted show output.
C39_SplitIffSeasonNull ==
    (InRun /\ kind = "tv") =>
        /\ last.committed =>
              /\ last.draft.split <=> last.draft.season = Nil
              /\ last.final.split = last.draft.split
              /\ last.final.season = last.draft.season
              /\ resultsMap[LastKey] = last.final
        /\ \A i \in 1..Len(outFile) : outFile[i].split <=> outFile[i].season = Nil

\* A show whose season lookup failed has been committed with the flag set
\* and a null season block, after an override that changed the record, and a
\* record with a season block is in the output of the run before.
C39_Witness ==
    /\ pc = "loop" /\ kind = "tv" /\ last.committed
    /\ last.draft.split /\ last.draft.season = Nil
    /\ Patched(LastKey) /\ last.final # last.draft
    /\ \E i \in 1..Len(outFile) : ~outFile[i].split /\ outFile[i].season # Nil

C32_TokenBeforeRequest ==
    ~wired =>
        /\ reqs \subseteq acquired
        /\ pc # "panic"

\* C33: when a run completes, its last step leaves no show, movie or season
\* cache entry and leaves the Letterboxd cache as it was; and no step of a
\* run removes a Letterboxd cache entry, so that every entry that existed
\* or was written during the run is still there after it.
C33_VolatileCachesRemovedLetterboxdKept ==
    [][/\ (pc = "saved" /\ pc' = "idle") =>
            /\ \A t \in TraktIds : entityCache'[t] = NoEnt /\ seasonCache'[t] = NoList
            /\ lbxCache' = lbxCache
       /\ InRun => lbxCache \subseteq lbxCache'
      ]_vars

\* A run of the movie batch has fetched a movie, written a Letterboxd cache
\* entry, persisted and completed: the movie cache is empty and the
\* Letterboxd entry is there.
C33_Witness ==
    /\ pc = "idle" /\ runs = 1 /\ kind = "movies"
    /\ lbxCache # {} /\ outFile # <<>>
    /\ \A t \in TraktIds : entityCache[t] = NoEnt

\* the step that processes a movie whose fetch succeeded (live or from the
\* cache) and whose Letterboxd lookup was made and failed
LookupFailedStep ==
    /\ RecordStep /\ kind = "movies"
    /\ primary'[idx] \in {"ok", "cached"}
    /\ idx \in lbxTried' /\ last'.draft.lb = Nil

\* C34: for a movie whose primary fetch succeeds, a failure of the
\* Letterboxd lookup is not fatal: the movie is committed to the result map
\* with its Letterboxd field absent, the loop goes on to the next record, and
\* the persist step writes every record of the result map.
C34_LookupFailureLeavesFieldAbsent ==
    [][/\ LookupFailedStep =>
            /\ input[idx].mal \in DOMAIN resultsMap'
            /\ resultsMap'[input[idx].mal].lb = Nil
            /\ pc' = "loop" /\ idx' = idx + 1
       /\ PersistStep =>
            {outFile'[i] : i \in 1..Len(outFile')} = {resultsMap[k] : k \in DOMAIN resultsMap}
      ]_vars

\* C34, amended: the movie is committed with the Letterboxd field that its
\* override supplies, if a non-ignored override supplies one, and with the
\* field absent otherwise; the rest as claimed.
C34_LookupFailureNotFatal ==
    [][/\ LookupFailedStep =>
            LET k == input[idx].mal IN
            /\ k \in DOMAIN resultsMap'
            /\ resultsMap'[k] = last'.final
            /\ resultsMap'[k].lb = IF Patched(k) /\ overridesMap[k].elb # Nil
                                   THEN overridesMap[k].elb ELSE Nil
            /\ pc' = "loop" /\ idx' = idx + 1
       /\ PersistStep =>
            {outFile'[i] : i \in 1..Len(outFile')} = {resultsMap[k] : k \in DOMAIN resultsMap}
      ]_vars

\* The first movie was fetched, its lookup failed and it has been persisted
\* without a Letterboxd field; the movie after it has been fetched too and
\* its lookup has succeeded.
C34_Witness ==
    /\ pc = "saved" /\ kind = "movies" /\ Len(outFile) = 2
    /\ primary = <<"ok", "ok">> /\ lbxTried = {1, 2}
    /\ \E i \in 1..2 : outFile[i].mal = input[1].mal /\ outFile[i].lb = Nil
    /\ \E i \in 1..2 : outFile[i].mal = input[2].mal /\ outFile[i].lb # Nil

(***************************************************************************)
(* The limiter under concurrent callers.                                   *)
(***************************************************************************)
\* C36: in every reachable state of a limiter of capacity C, concurrent
\* callers included, the token count lies in [0, C]; a Wait that returns
\* has deducted exactly one token; and the number of acquisitions never
\* exceeds the initial tokens plus the refill accrued since: from the
\* construction of the limiter, and over every step (the tokens on hand,
\* refill due included, plus the acquisitions of the step are at most the
\* tokens on hand before plus the refill of the step), hence over every
\* interval.
C36_TokensBoundedOnePerWait ==
    /\ [](/\ 0 <= limiter.tokens
          /\ limiter.tokens <= limiter.maxRequests * limiter.windowSize
          /\ clock < MaxClock =>
               taken * limiter.windowSize + limiter.tokens
                   <= limiter.maxRequests * limiter.windowSize + limiter.maxRequests * clock)
    /\ [][/\ taken' \in {taken, taken + 1}
          /\ clock < MaxClock =>
                 Refilled' + (taken' - taken) * limiter.windowSize
                     <= Refilled + limiter.maxRequests * (clock' - clock)
          /\ (\E c \in Callers : at[c] # "return" /\ at'[c] = "return") <=>
                 (taken' = taken + 1 /\ limiter'.tokens = Refilled - limiter.windowSize)
          /\ \A c \in Callers :
               (at[c] # "out" /\ at'[c] = "out") => at[c] = "return"
         ]_vars

\* Both callers have made all their calls, four acquisitions have been made
\* from a bucket of capacity one, as fast as the refill allows, and a caller
\* has slept on the way.
C36_Witness ==
    /\ limiter.maxRequests = 1 /\ taken = 2 * MaxCalls /\ clock < MaxClock
    /\ taken * limiter.windowSize + limiter.tokens
           = limiter.maxRequests * limiter.windowSize + limiter.maxRequests * clock
    /\ \A c \in Callers : at[c] = "out" /\ waitCalls[c] = MaxCalls

\* C37: tokens and lastRefill are read and written only by a caller that
\* holds the mutex; no caller holds the mutex while it sleeps; the mutex is
\* unlocked only by the caller that holds it; and a caller that has left
\* Wait does not hold the mutex.
C37_BucketOnlyUnderMutex ==
    /\ [](\A c \in Callers :
            /\ at[c] \in {"loop", "return", "unlock"} => mu = c
            /\ at[c] \in {"sleep", "out", "lock"} => mu # c)
    /\ [][/\ (\/ limiter'.tokens # limiter.tokens
              \/ limiter'.elapsed < limiter.elapsed
              \/ \E c \in Callers : at[c] = "loop" /\ at'[c] # "loop")
                 => \E c \in Callers : mu = c /\ at[c] = "loop" /\ at'[c] # "loop"
          /\ (mu # Nil /\ mu' # mu) =>
                 /\ mu' = Nil
                 /\ at[mu] \in {"return", "unlock"} /\ at'[mu] # at[mu]
         ]_vars

\* One caller sleeps, without the mutex, while the other one holds the
\* mutex and is about to return with the token.
C37_Witness ==
    \E c, d \in Callers :
        /\ at[c] = "sleep" /\ sleepLeft[c] > 0
        /\ at[d] = "return" /\ mu = d
        /\ taken > limiter.maxRequests

C40_ShowRecordsSurviveMovies ==
    (tvBatch.done /\ pc = "saved") =>
        \E showFile \in {IF tvBatch.custom THEN outFile ELSE tvBatch.file} :
            \A i \in 1..Len(tvBatch.saved) :
                \E j \in 1..Len(showFile) : showFile[j] = tvBatch.saved[i]

====
